---- MODULE Spec2Model ----
(***************************************************************************)
(* Model of make_panel.py: the Dzus panel template generator.              *)
(*                                                                         *)
(* The script is a straight-line program that pushes lines, arcs and       *)
(* circles into the drawing's modelspace (msp).  The model keeps msp as    *)
(* the sequence of primitives in emission order and runs the script one    *)
(* block (or one loop iteration) per action.                               *)
(*                                                                         *)
(* Numbers.  Lengths in inches are held as integer counts of 1/64 inch     *)
(* (every fraction of the script is a multiple of 1/64), and lengths in    *)
(* mm as integer nanometres (mm * 10^6), so that intomm (x 25.4) is the    *)
(* exact integer map inches64 * 396875.  The arithmetic is therefore the   *)
(* script's arithmetic over the reals; floating-point rounding is not      *)
(* modelled.                                                               *)
(***************************************************************************)
EXTENDS Integers, Sequences, FiniteSets

VARIABLES w_inches, h_units, left_mount, right_mount, msp, pc, idx, last_x, last_y

vars == <<w_inches, h_units, left_mount, right_mount, msp, pc, idx, last_x, last_y>>

params == <<w_inches, h_units, left_mount, right_mount>>

----------------------------------------------------------------------------
(* Bounds of the explored parameter space *)

MaxH == 4

MaxPos == 3

MaxLen == 2

\* widths in 1/64 inch: 0 in, 3/8 in, 13/32 in, 1 in
Widths == {0, 24, 26, 64}

Heights == 0..MaxH

Positions == 0..MaxPos

RECURSIVE SeqsUpTo(_)
SeqsUpTo(n) ==
    IF n = 0 THEN {<<>>}
    ELSE LET S == SeqsUpTo(n - 1)
         IN  S \cup {Append(s, p) : s \in {t \in S : Len(t) = n - 1}, p \in Positions}

MountLists == SeqsUpTo(MaxLen)

\* the right side carries the same list as the left, no fastener, or one in row 1
RightLists(l) == {l, <<>>, <<1>>}

----------------------------------------------------------------------------
(* Units *)

\* the fraction n/d inch, in 1/64 inch
In(n, d) == (n * 64) \div d

\* nanometres per 1/64 inch: 25.4 mm / 64
NmPer64th == 396875

intomm(inches) == inches * NmPer64th

\* the literal 10 (mm) by which construction lines overshoot
Overshoot == 10000000

\* the literal 2 (mm), radius of a mounting hole
HoleRadius == 2000000

----------------------------------------------------------------------------
(* Primitives handed to the modelspace *)

add_line(start, end, layer) ==
    [kind |-> "LINE", layer |-> layer, start |-> start, end |-> end]

add_arc(center, radius, start_angle, end_angle, layer) ==
    [kind |-> "ARC", layer |-> layer, center |-> center, radius |-> radius,
     start_angle |-> start_angle, end_angle |-> end_angle]

add_circle(center, radius, layer) ==
    [kind |-> "CIRCLE", layer |-> layer, center |-> center, radius |-> radius]

----------------------------------------------------------------------------
(* Outer dimensions of plate *)

top == intomm(h_units * In(3, 8))

bottom == 0

left == 0

right == intomm(w_inches)

----------------------------------------------------------------------------
(* PLATE *)

\* PlateOutline with the left edge drawn from the wrong corner
PlateOutline_open ==
    << add_line(<<left, bottom>>, <<right, bottom>>, "plate"),
       add_line(<<right, bottom>>, <<right, top>>, "plate"),
       add_line(<<right, top>>, <<left, top>>, "plate"),
       add_line(<<right, top>>, <<left, bottom>>, "plate") >>

\* Outline of plate
PlateOutline ==
    << add_line(<<left, bottom>>, <<right, bottom>>, "plate"),
       add_line(<<right, bottom>>, <<right, top>>, "plate"),
       add_line(<<right, top>>, <<left, top>>, "plate"),
       add_line(<<left, top>>, <<left, bottom>>, "plate") >>

\* y of the fastener row pos
FastenerY(pos) == intomm(pos * In(3, 8) + In(3, 16))

PlateLeftVertical ==
    << add_line(<<intomm(In(3, 16)), bottom - Overshoot>>,
                <<intomm(In(3, 16)), top + Overshoot>>, "plate_construction") >>

\* PlateLeftHole with the half-pitch offset of the hole centre forgotten
PlateLeftHole_offcentre(pos) ==
    << add_line(<<left - Overshoot, FastenerY(pos)>>,
                <<right \div 2, FastenerY(pos)>>, "plate_construction"),
       add_circle(<<intomm(In(3, 16)), intomm(pos * In(3, 8))>>, HoleRadius, "plate") >>

PlateLeftHole(pos) ==
    << add_line(<<left - Overshoot, FastenerY(pos)>>,
                <<right \div 2, FastenerY(pos)>>, "plate_construction"),
       add_circle(<<intomm(In(3, 16)), FastenerY(pos)>>, HoleRadius, "plate") >>

PlateRightVertical ==
    << add_line(<<right - intomm(In(3, 16)), bottom - Overshoot>>,
                <<right - intomm(In(3, 16)), top + Overshoot>>, "plate_construction") >>

\* PlateRightHole with the circle put on the construction layer
PlateRightHole_layer(pos) ==
    << add_line(<<right \div 2, FastenerY(pos)>>,
                <<right + Overshoot, FastenerY(pos)>>, "plate_construction"),
       add_circle(<<right - intomm(In(3, 16)), FastenerY(pos)>>, HoleRadius,
                  "plate_construction") >>

PlateRightHole(pos) ==
    << add_line(<<right \div 2, FastenerY(pos)>>,
                <<right + Overshoot, FastenerY(pos)>>, "plate_construction"),
       add_circle(<<right - intomm(In(3, 16)), FastenerY(pos)>>, HoleRadius, "plate") >>

----------------------------------------------------------------------------
(* FASCIA *)

\* FasciaOutline with the top-left corner emitted before the bottom edge
FasciaOutline_reordered ==
    << add_arc(<<intomm(In(2, 32)), intomm(In(2, 32))>>,
               intomm(In(1, 32)), 180, 270, "fascia"),
       add_arc(<<intomm(In(2, 32)), top - intomm(In(2, 32))>>,
               intomm(In(1, 32)), 90, 180, "fascia"),
       add_line(<<left + intomm(In(2, 32)), bottom + intomm(In(1, 32))>>,
                <<right - intomm(In(2, 32)), bottom + intomm(In(1, 32))>>, "fascia"),
       add_arc(<<right - intomm(In(2, 32)), intomm(In(2, 32))>>,
               intomm(In(1, 32)), 270, 0, "fascia"),
       add_line(<<left + intomm(In(2, 32)), top - intomm(In(1, 32))>>,
                <<right - intomm(In(2, 32)), top - intomm(In(1, 32))>>, "fascia"),
       add_arc(<<right - intomm(In(2, 32)), top - intomm(In(2, 32))>>,
               intomm(In(1, 32)), 0, 90, "fascia") >>

\* Corners, bottom line and top line, in the order of the script
FasciaOutline ==
    << add_arc(<<intomm(In(2, 32)), intomm(In(2, 32))>>,
               intomm(In(1, 32)), 180, 270, "fascia"),
       add_line(<<left + intomm(In(2, 32)), bottom + intomm(In(1, 32))>>,
                <<right - intomm(In(2, 32)), bottom + intomm(In(1, 32))>>, "fascia"),
       add_arc(<<right - intomm(In(2, 32)), intomm(In(2, 32))>>,
               intomm(In(1, 32)), 270, 0, "fascia"),
       add_arc(<<intomm(In(2, 32)), top - intomm(In(2, 32))>>,
               intomm(In(1, 32)), 90, 180, "fascia"),
       add_line(<<left + intomm(In(2, 32)), top - intomm(In(1, 32))>>,
                <<right - intomm(In(2, 32)), top - intomm(In(1, 32))>>, "fascia"),
       add_arc(<<right - intomm(In(2, 32)), top - intomm(In(2, 32))>>,
               intomm(In(1, 32)), 0, 90, "fascia") >>

\* Horizontal and vertical construction lines across centre of fascia
FasciaCentreLines ==
    << add_line(<<right \div 2, bottom - Overshoot>>,
                <<right \div 2, top + Overshoot>>, "fascia_construction"),
       add_line(<<left - Overshoot, top \div 2>>,
                <<right + Overshoot, top \div 2>>, "fascia_construction") >>

FasciaLeftVertical ==
    << add_line(<<intomm(In(3, 16)), bottom - Overshoot>>,
                <<intomm(In(3, 16)), top + Overshoot>>, "fascia_construction") >>

\* LeftRebate whose lead-in line stops at the pocket mouth's y, the fillet
\* radius forgotten
LeftRebate_gap(pos, lx, ly) ==
    LET centre_x == intomm(In(3, 16))
        centre_y == intomm(pos * In(3, 8) + In(3, 16))
    IN  << add_line(<<left - Overshoot, centre_y>>, <<right \div 2, centre_y>>,
                    "fascia_construction"),
           add_line(<<lx, ly>>,
                    <<left + intomm(In(1, 32)),
                      centre_y - intomm(In(3, 16) + In(1, 16))>>,
                    "fascia"),
           add_arc(<<left + intomm(In(2, 32)),
                     centre_y - intomm(In(3, 16) + In(1, 16) + In(1, 32))>>,
                   intomm(In(1, 32)), 90, 180, "fascia"),
           add_line(<<left + intomm(In(2, 32)), centre_y - intomm(In(3, 16) + In(1, 16))>>,
                    <<left + intomm(In(3, 16)), centre_y - intomm(In(3, 16) + In(1, 16))>>,
                    "fascia"),
           add_arc(<<centre_x, centre_y>>,
                   intomm(In(3, 16) + In(1, 16)), 270, 90, "fascia"),
           add_line(<<left + intomm(In(2, 32)), centre_y + intomm(In(3, 16) + In(1, 16))>>,
                    <<left + intomm(In(3, 16)), centre_y + intomm(In(3, 16) + In(1, 16))>>,
                    "fascia"),
           add_arc(<<left + intomm(In(2, 32)),
                     centre_y + intomm(In(3, 16) + In(1, 16) + In(1, 32))>>,
                   intomm(In(1, 32)), 180, 270, "fascia") >>

\* One pass of the left loop body, entered with the contour at (lx, ly)
LeftRebate(pos, lx, ly) ==
    LET centre_x == intomm(In(3, 16))
        centre_y == intomm(pos * In(3, 8) + In(3, 16))
    IN  << add_line(<<left - Overshoot, centre_y>>, <<right \div 2, centre_y>>,
                    "fascia_construction"),
           add_line(<<lx, ly>>,
                    <<left + intomm(In(1, 32)),
                      centre_y - intomm(In(3, 16) + In(1, 16) + In(1, 32))>>,
                    "fascia"),
           add_arc(<<left + intomm(In(2, 32)),
                     centre_y - intomm(In(3, 16) + In(1, 16) + In(1, 32))>>,
                   intomm(In(1, 32)), 90, 180, "fascia"),
           add_line(<<left + intomm(In(2, 32)), centre_y - intomm(In(3, 16) + In(1, 16))>>,
                    <<left + intomm(In(3, 16)), centre_y - intomm(In(3, 16) + In(1, 16))>>,
                    "fascia"),
           add_arc(<<centre_x, centre_y>>,
                   intomm(In(3, 16) + In(1, 16)), 270, 90, "fascia"),
           add_line(<<left + intomm(In(2, 32)), centre_y + intomm(In(3, 16) + In(1, 16))>>,
                    <<left + intomm(In(3, 16)), centre_y + intomm(In(3, 16) + In(1, 16))>>,
                    "fascia"),
           add_arc(<<left + intomm(In(2, 32)),
                     centre_y + intomm(In(3, 16) + In(1, 16) + In(1, 32))>>,
                   intomm(In(1, 32)), 180, 270, "fascia") >>

\* RebateExitY with the rows counted from 1 instead of 0
RebateExitY_rowbase(pos) ==
    intomm((pos + 1) * In(3, 8) + In(3, 16)) + intomm(In(3, 16) + In(1, 16) + In(1, 32))

\* last_y after one pass of either loop body
RebateExitY(pos) ==
    intomm(pos * In(3, 8) + In(3, 16)) + intomm(In(3, 16) + In(1, 16) + In(1, 32))

\* LeftFinalLine run up to the top edge's y instead of the corner arc's end
LeftFinalLine_short(lx, ly) ==
    << add_line(<<lx, ly>>, <<intomm(In(1, 32)), top - intomm(In(1, 32))>>, "fascia") >>

LeftFinalLine(lx, ly) ==
    << add_line(<<lx, ly>>, <<intomm(In(1, 32)), top - intomm(In(2, 32))>>, "fascia") >>

FasciaRightVertical ==
    << add_line(<<right - intomm(In(3, 16)), bottom - Overshoot>>,
                <<right - intomm(In(3, 16)), top + Overshoot>>, "fascia_construction") >>

\* RightRebate with the pocket arc's angles copied from the left side
RightRebate_unmirrored(pos, lx, ly) ==
    LET centre_x == right - intomm(In(3, 16))
        centre_y == intomm(pos * In(3, 8) + In(3, 16))
    IN  << add_line(<<right \div 2, centre_y>>, <<right + Overshoot, centre_y>>,
                    "fascia_construction"),
           add_line(<<lx, ly>>,
                    <<right - intomm(In(1, 32)),
                      centre_y - intomm(In(3, 16) + In(1, 16) + In(1, 32))>>,
                    "fascia"),
           add_arc(<<right - intomm(In(2, 32)),
                     centre_y - intomm(In(3, 16) + In(1, 16) + In(1, 32))>>,
                   intomm(In(1, 32)), 0, 90, "fascia"),
           add_line(<<right - intomm(In(2, 32)), centre_y - intomm(In(3, 16) + In(1, 16))>>,
                    <<right - intomm(In(3, 16)), centre_y - intomm(In(3, 16) + In(1, 16))>>,
                    "fascia"),
           add_arc(<<centre_x, centre_y>>,
                   intomm(In(3, 16) + In(1, 16)), 270, 90, "fascia"),
           add_line(<<right - intomm(In(2, 32)), centre_y + intomm(In(3, 16) + In(1, 16))>>,
                    <<right - intomm(In(3, 16)), centre_y + intomm(In(3, 16) + In(1, 16))>>,
                    "fascia"),
           add_arc(<<right - intomm(In(2, 32)),
                     centre_y + intomm(In(3, 16) + In(1, 16) + In(1, 32))>>,
                   intomm(In(1, 32)), 270, 0, "fascia") >>

\* One pass of the right loop body, entered with the contour at (lx, ly)
RightRebate(pos, lx, ly) ==
    LET centre_x == right - intomm(In(3, 16))
        centre_y == intomm(pos * In(3, 8) + In(3, 16))
    IN  << add_line(<<right \div 2, centre_y>>, <<right + Overshoot, centre_y>>,
                    "fascia_construction"),
           add_line(<<lx, ly>>,
                    <<right - intomm(In(1, 32)),
                      centre_y - intomm(In(3, 16) + In(1, 16) + In(1, 32))>>,
                    "fascia"),
           add_arc(<<right - intomm(In(2, 32)),
                     centre_y - intomm(In(3, 16) + In(1, 16) + In(1, 32))>>,
                   intomm(In(1, 32)), 0, 90, "fascia"),
           add_line(<<right - intomm(In(2, 32)), centre_y - intomm(In(3, 16) + In(1, 16))>>,
                    <<right - intomm(In(3, 16)), centre_y - intomm(In(3, 16) + In(1, 16))>>,
                    "fascia"),
           add_arc(<<centre_x, centre_y>>,
                   intomm(In(3, 16) + In(1, 16)), 90, 270, "fascia"),
           add_line(<<right - intomm(In(2, 32)), centre_y + intomm(In(3, 16) + In(1, 16))>>,
                    <<right - intomm(In(3, 16)), centre_y + intomm(In(3, 16) + In(1, 16))>>,
                    "fascia"),
           add_arc(<<right - intomm(In(2, 32)),
                     centre_y + intomm(In(3, 16) + In(1, 16) + In(1, 32))>>,
                   intomm(In(1, 32)), 270, 0, "fascia") >>

RightFinalLine(lx, ly) ==
    << add_line(<<lx, ly>>, <<right - intomm(In(1, 32)), top - intomm(In(2, 32))>>,
                "fascia") >>

\* Centreline for panel name
DecalCentreline ==
    << add_line(<<left - Overshoot, top - intomm(In(13, 64))>>,
                <<right + Overshoot, top - intomm(In(13, 64))>>, "decal_construction") >>

----------------------------------------------------------------------------
(* The run of the script *)

Init ==
    /\ w_inches \in Widths
    /\ h_units \in Heights
    /\ left_mount \in MountLists
    /\ right_mount \in RightLists(left_mount)
    /\ msp = <<>>
    /\ pc = "plate_outline"
    /\ idx = 0
    /\ last_x = 0
    /\ last_y = 0

\* lines 75-78
DrawPlateOutline ==
    /\ pc = "plate_outline"
    /\ msp' = msp \o PlateOutline
    /\ pc' = "plate_left_if"
    /\ UNCHANGED <<params, idx, last_x, last_y>>

\* lines 81-82
DrawPlateLeftVertical ==
    /\ pc = "plate_left_if"
    /\ msp' = IF left_mount # <<>> THEN msp \o PlateLeftVertical ELSE msp
    /\ pc' = IF left_mount # <<>> THEN "plate_left_for" ELSE "plate_right_if"
    /\ idx' = 1
    /\ UNCHANGED <<params, last_x, last_y>>

\* lines 84-86, one iteration
DrawPlateLeftHole ==
    /\ pc = "plate_left_for"
    /\ msp' = msp \o PlateLeftHole(left_mount[idx])
    /\ idx' = idx + 1
    /\ pc' = IF idx = Len(left_mount) THEN "plate_right_if" ELSE "plate_left_for"
    /\ UNCHANGED <<params, last_x, last_y>>

\* lines 88-89
DrawPlateRightVertical ==
    /\ pc = "plate_right_if"
    /\ msp' = IF right_mount # <<>> THEN msp \o PlateRightVertical ELSE msp
    /\ pc' = IF right_mount # <<>> THEN "plate_right_for" ELSE "fascia_outline"
    /\ idx' = 1
    /\ UNCHANGED <<params, last_x, last_y>>

\* lines 91-93, one iteration
DrawPlateRightHole ==
    /\ pc = "plate_right_for"
    /\ msp' = msp \o PlateRightHole(right_mount[idx])
    /\ idx' = idx + 1
    /\ pc' = IF idx = Len(right_mount) THEN "fascia_outline" ELSE "plate_right_for"
    /\ UNCHANGED <<params, last_x, last_y>>

\* lines 102-119
DrawFasciaOutline ==
    /\ pc = "fascia_outline"
    /\ msp' = msp \o FasciaOutline
    /\ pc' = "fascia_centre"
    /\ UNCHANGED <<params, idx, last_x, last_y>>

\* lines 122-125
DrawFasciaCentreLines ==
    /\ pc = "fascia_centre"
    /\ msp' = msp \o FasciaCentreLines
    /\ pc' = "left_start"
    /\ UNCHANGED <<params, idx, last_x, last_y>>

\* lines 133-138
LeftStart ==
    /\ pc = "left_start"
    /\ last_x' = left + intomm(In(1, 32))
    /\ last_y' = intomm(In(2, 32))
    /\ msp' = IF left_mount # <<>> THEN msp \o FasciaLeftVertical ELSE msp
    /\ pc' = IF left_mount # <<>> THEN "left_for" ELSE "left_final"
    /\ idx' = 1
    /\ UNCHANGED params

\* lines 140-164, one iteration
DrawLeftRebate ==
    /\ pc = "left_for"
    /\ msp' = msp \o LeftRebate(left_mount[idx], last_x, last_y)
    /\ last_y' = RebateExitY(left_mount[idx])
    /\ idx' = idx + 1
    /\ pc' = IF idx = Len(left_mount) THEN "left_final" ELSE "left_for"
    /\ UNCHANGED <<params, last_x>>

\* line 166
DrawLeftFinal ==
    /\ pc = "left_final"
    /\ msp' = msp \o LeftFinalLine(last_x, last_y)
    /\ pc' = "right_start"
    /\ UNCHANGED <<params, idx, last_x, last_y>>

\* lines 169-174
RightStart ==
    /\ pc = "right_start"
    /\ last_x' = right - intomm(In(1, 32))
    /\ last_y' = intomm(In(2, 32))
    /\ msp' = IF right_mount # <<>> THEN msp \o FasciaRightVertical ELSE msp
    /\ pc' = IF right_mount # <<>> THEN "right_for" ELSE "right_final"
    /\ idx' = 1
    /\ UNCHANGED params

\* lines 176-200, one iteration
DrawRightRebate ==
    /\ pc = "right_for"
    /\ msp' = msp \o RightRebate(right_mount[idx], last_x, last_y)
    /\ last_y' = RebateExitY(right_mount[idx])
    /\ idx' = idx + 1
    /\ pc' = IF idx = Len(right_mount) THEN "right_final" ELSE "right_for"
    /\ UNCHANGED <<params, last_x>>

\* line 202
DrawRightFinal ==
    /\ pc = "right_final"
    /\ msp' = msp \o RightFinalLine(last_x, last_y)
    /\ pc' = "decal"
    /\ UNCHANGED <<params, idx, last_x, last_y>>

\* line 208
DrawDecalCentreline ==
    /\ pc = "decal"
    /\ msp' = msp \o DecalCentreline
    /\ pc' = "done"
    /\ UNCHANGED <<params, idx, last_x, last_y>>

Next ==
    \/ DrawPlateOutline
    \/ DrawPlateLeftVertical
    \/ DrawPlateLeftHole
    \/ DrawPlateRightVertical
    \/ DrawPlateRightHole
    \/ DrawFasciaOutline
    \/ DrawFasciaCentreLines
    \/ LeftStart
    \/ DrawLeftRebate
    \/ DrawLeftFinal
    \/ RightStart
    \/ DrawRightRebate
    \/ DrawRightFinal
    \/ DrawDecalCentreline

Spec == Init /\ [][Next]_vars

----------------------------------------------------------------------------
(* Geometry of the emitted primitives *)

CosDeg(a) == CASE a % 360 = 0 -> 1 [] a % 360 = 90 -> 0
               [] a % 360 = 180 -> -1 [] a % 360 = 270 -> 0

SinDeg(a) == CASE a % 360 = 0 -> 0 [] a % 360 = 90 -> 1
               [] a % 360 = 180 -> 0 [] a % 360 = 270 -> -1

\* the point of arc p at angle a
ArcPoint(p, a) ==
    <<p.center[1] + p.radius * CosDeg(a), p.center[2] + p.radius * SinDeg(a)>>

\* first point: a line's start, an arc's point at its start angle
P1(p) == IF p.kind = "LINE" THEN p.start ELSE ArcPoint(p, p.start_angle)

\* second point: a line's end, an arc's point at its end angle
P2(p) == IF p.kind = "LINE" THEN p.end ELSE ArcPoint(p, p.end_angle)

\* counter-clockwise sweep of an arc, in degrees
Sweep(p) == (p.end_angle - p.start_angle) % 360

OnLayer(layer) == SelectSeq(msp, LAMBDA p : p.layer = layer)

FasciaSeq == OnLayer("fascia")

Done == pc = "done"

\* The fascia layer in emission order: six corner and edge primitives, then
\* the left side (six per fastener and the final segment), then the right.
LeftSide ==
    SubSeq(FasciaSeq, 7, 7 + 6 * Len(left_mount))

RightSide ==
    SubSeq(FasciaSeq, 8 + 6 * Len(left_mount),
           8 + 6 * Len(left_mount) + 6 * Len(right_mount))

Broken == <<0, 0, 0>>

\* Walk S from the point cur: each primitive must have cur as one of its two
\* points and is left by the other one.  The point reached, or Broken.
RECURSIVE ChainEnd(_, _)
ChainEnd(S, cur) ==
    IF S = <<>> THEN cur
    ELSE IF cur = Broken THEN Broken
    ELSE IF P1(Head(S)) = cur THEN ChainEnd(Tail(S), P2(Head(S)))
    ELSE IF P2(Head(S)) = cur THEN ChainEnd(Tail(S), P1(Head(S)))
    ELSE Broken

DirectedClosedChain(S) ==
    /\ \A i \in 1..(Len(S) - 1) : P2(S[i]) = P1(S[i + 1])
    /\ P2(S[Len(S)]) = P1(S[1])

----------------------------------------------------------------------------
(* C1 *)

----------------------------------------------------------------------------
(* C2 *)

\* C2: the first four primitives are lines on layer plate, bottom, right, top,
\* left, through (0,0), (width,0), (width,height*3/8 in), (0,height*3/8 in),
\* each ending where the next starts and the last ending at (0,0).
C2_PlateOutlineClosed ==
    pc # "plate_outline" =>
        LET W == w_inches * NmPer64th
            T == h_units * 24 * NmPer64th
            c == << <<0, 0>>, <<W, 0>>, <<W, T>>, <<0, T>> >>
        IN  /\ Len(msp) >= 4
            /\ \A i \in 1..4 :
                  /\ msp[i].kind = "LINE"
                  /\ msp[i].layer = "plate"
                  /\ msp[i].start = c[i]
                  /\ msp[i].end = c[(i % 4) + 1]
            /\ Done => Len(SelectSeq(OnLayer("plate"), LAMBDA p : p.kind = "LINE")) = 4

\* the outline of a 1 in x 4 unit plate has been emitted
C2_Witness ==
    /\ pc = "plate_left_if" /\ Len(msp) = 4
    /\ w_inches = 64 /\ h_units = 4
    /\ msp[3].start = <<25400000, 38100000>>

----------------------------------------------------------------------------
(* Validity of the parameters, as the specification defines it *)

BadList(l) ==
    \E i \in 1..Len(l) :
        \/ l[i] <= 0
        \/ l[i] >= h_units
        \/ (i > 1 /\ l[i] <= l[i - 1])

InvalidPanel ==
    \/ w_inches <= 0
    \/ h_units <= 0
    \/ BadList(left_mount)
    \/ BadList(right_mount)

----------------------------------------------------------------------------
(* C3 *)

Range(S) == {S[i] : i \in 1..Len(S)}

\* number of primitives a side puts on the plate layers, and on the fascia layers
PlateBlock(n) == IF n > 0 THEN 1 + 2 * n ELSE 0

FasciaBlock(n) == IF n > 0 THEN 2 + 7 * n ELSE 1

\* where the left side's fascia block starts in msp, less one
FasciaBase == 4 + PlateBlock(Len(left_mount)) + PlateBlock(Len(right_mount)) + 8

\* everything the script emits for the left side: plate_construction lines and
\* plate circles, fascia_construction lines, fascia lines and arcs
LeftPrims ==
    Range(SubSeq(msp, 5, 4 + PlateBlock(Len(left_mount))))
        \cup Range(SubSeq(msp, FasciaBase + 1, FasciaBase + FasciaBlock(Len(left_mount))))

RightPrims ==
    Range(SubSeq(msp, 5 + PlateBlock(Len(left_mount)),
                 4 + PlateBlock(Len(left_mount)) + PlateBlock(Len(right_mount))))
        \cup Range(SubSeq(msp, FasciaBase + FasciaBlock(Len(left_mount)) + 1,
                          FasciaBase + FasciaBlock(Len(left_mount))
                              + FasciaBlock(Len(right_mount))))

MirrorPoint(q) == <<right - q[1], q[2]>>

\* image of a primitive under x -> width - x; an arc from a to b becomes the
\* arc from 180-b to 180-a
Reflect(p) ==
    CASE p.kind = "LINE" ->
            [p EXCEPT !.start = MirrorPoint(p.start), !.end = MirrorPoint(p.end)]
      [] p.kind = "ARC" ->
            [p EXCEPT !.center = MirrorPoint(p.center),
                      !.start_angle = (180 - p.end_angle) % 360,
                      !.end_angle = (180 - p.start_angle) % 360]
      [] p.kind = "CIRCLE" ->
            [p EXCEPT !.center = MirrorPoint(p.center)]

PointBefore(a, b) == a[1] < b[1] \/ (a[1] = b[1] /\ a[2] < b[2])

\* a line as the segment between its two points, whichever is stored first
Segment(p) ==
    IF p.kind = "LINE" /\ PointBefore(p.end, p.start)
    THEN [p EXCEPT !.start = p.end, !.end = p.start]
    ELSE p

\* C3 as stated, on valid panels: with the same list on both sides, the set of primitives
\* emitted for the right side is the image of the set emitted for the left
\* side under x -> width - x, a line going to the line between the images of
\* its start and end, an arc from a to b to the arc from 180-b to 180-a.
C3_MirrorImageOfPrimitives ==
    (Done /\ ~InvalidPanel /\ left_mount = right_mount) =>
        RightPrims = {Reflect(p) : p \in LeftPrims}

\* C3 amended: the same with every line taken as the segment between its two
\* points, whichever is stored first (the horizontal construction line of a
\* fastener is stored outside-to-midline on the left and midline-to-outside
\* on the right).
C3_MirrorImageOfSegments ==
    (Done /\ left_mount = right_mount) =>
        {Segment(p) : p \in RightPrims} = {Segment(Reflect(p)) : p \in LeftPrims}

\* a finished panel with the same two fasteners on both sides
C3_Witness ==
    /\ Done /\ left_mount = right_mount /\ Len(left_mount) = 2
    /\ Cardinality(LeftPrims) > 14
    /\ \E p \in RightPrims : p.kind = "ARC" /\ Sweep(p) = 180

----------------------------------------------------------------------------
(* C4 *)

\* C4: with invalid parameters (width <= 0, height <= 0, a position <= 0 or
\* >= height, or a position not above its predecessor) nothing is emitted on
\* any layer.
C4_NothingEmittedWhenInvalid ==
    InvalidPanel => msp = <<>>

----------------------------------------------------------------------------
(* C5 *)

\* two consecutive positions closer than 2*(3/16+1/16+1/32) in
TooClose(l) ==
    \E i \in 1..(Len(l) - 1) :
        /\ l[i + 1] > l[i]
        /\ (l[i + 1] - l[i]) * In(3, 8) < 2 * (In(3, 16) + In(1, 16) + In(1, 32))

\* C5: when two consecutive fasteners of a side of an otherwise valid panel are
\* too close for their rebates, no fascia side segment is emitted that starts
\* above its end.
C5_NoDescendingSideSegment ==
    (~InvalidPanel /\ (TooClose(left_mount) \/ TooClose(right_mount))) =>
        \A i \in 1..Len(msp) :
            (msp[i].layer = "fascia" /\ msp[i].kind = "LINE"
                 /\ msp[i].start[1] = msp[i].end[1])
                => msp[i].start[2] <= msp[i].end[2]

----------------------------------------------------------------------------
(* C6 *)

PlateLayers == {"plate", "plate_construction"}

FasciaLayers == {"fascia", "fascia_construction"}

\* the angles at multiples of 90 degrees that arc p passes through
ArcAngles(p) == {(p.start_angle + 90 * k) % 360 : k \in 0..(Sweep(p) \div 90)}

\* y of the extreme points of a primitive
YS(p) ==
    IF p.kind = "LINE" THEN {p.start[2], p.end[2]}
    ELSE {ArcPoint(p, a)[2] : a \in ArcAngles(p)}

MinY(p) == CHOOSE y \in YS(p) : \A z \in YS(p) : y <= z

MaxY(p) == CHOOSE y \in YS(p) : \A z \in YS(p) : y >= z

\* a lies entirely above b
Higher(a, b) == MinY(a) > MaxY(b)

\* no primitive of S comes after one that lies higher
BottomToTop(S) ==
    LET lo == [i \in 1..Len(S) |-> MinY(S[i])]
        hi == [i \in 1..Len(S) |-> MaxY(S[i])]
    IN  \A i, j \in 1..Len(S) : i < j => ~(lo[i] > hi[j])

\* no primitive on a plate layer comes after one on a fascia layer
PlateBeforeFascia ==
    SelectSeq(msp, LAMBDA p : p.layer \in PlateLayers \cup FasciaLayers)
        = SelectSeq(msp, LAMBDA p : p.layer \in PlateLayers)
              \o SelectSeq(msp, LAMBDA p : p.layer \in FasciaLayers)

\* consecutive positions at least two units apart, ascending
Spaced(l) == \A i \in 1..(Len(l) - 1) : l[i + 1] - l[i] >= 2

\* C6 as stated, for valid panels whose rebates do not overlap: plate layers
\* before fascia layers, and no fascia primitive is emitted after one that
\* lies higher on the panel.
C6_BottomToTop ==
    (~InvalidPanel /\ Spaced(left_mount) /\ Spaced(right_mount)) =>
        PlateBeforeFascia /\ BottomToTop(FasciaSeq)

\* the k-th rebate of side S is centred at (x, row p): its pocket arc is the
\* fourth of its six primitives
RebateAt(S, k, x, p) ==
    LET a == S[6 * (k - 1) + 4]
    IN  /\ a.kind = "ARC" /\ Sweep(a) = 180
        /\ a.center = <<x * NmPer64th, (p * 24 + 12) * NmPer64th>>

\* C6 amended: plate layers before fascia layers. On the fascia layer the six
\* corner and edge primitives come first (bottom-left corner, bottom edge,
\* bottom-right corner, top-left corner, top edge, top-right corner), then
\* the whole left side, then the whole right side. The rebates of a side
\* come in list order, and a side whose positions ascend by at least two
\* units is emitted bottom to top.
C6_EmissionOrder ==
    /\ PlateBeforeFascia
    /\ Done =>
          LET F == FasciaSeq
              lo == 4 * NmPer64th
              hi == (h_units * 24 - 4) * NmPer64th
          IN  /\ F[1].kind = "ARC" /\ F[1].center[2] = lo
              /\ F[2].kind = "LINE" /\ F[2].start[2] = lo - 2 * NmPer64th
              /\ F[3].kind = "ARC" /\ F[3].center[2] = lo
              /\ F[4].kind = "ARC" /\ F[4].center[2] = hi
              /\ F[5].kind = "LINE" /\ F[5].start[2] = hi + 2 * NmPer64th
              /\ F[6].kind = "ARC" /\ F[6].center[2] = hi
              /\ \A k \in 1..Len(left_mount) :
                    RebateAt(LeftSide, k, 12, left_mount[k])
              /\ \A k \in 1..Len(right_mount) :
                    RebateAt(RightSide, k, w_inches - 12, right_mount[k])
              /\ Spaced(left_mount) => BottomToTop(LeftSide)
              /\ Spaced(right_mount) => BottomToTop(RightSide)

\* a finished valid panel, two spaced rebates on each side
C6_Witness ==
    /\ Done /\ ~InvalidPanel
    /\ left_mount = <<1, 3>> /\ right_mount = <<1, 3>>
    /\ Higher(FasciaSeq[5], FasciaSeq[7])

----------------------------------------------------------------------------
(* C7 *)

Count(S, Test(_)) == Len(SelectSeq(S, Test))

IsRebate(S, k) ==
    LET q(n) == S[6 * (k - 1) + n]
    IN  /\ q(1).kind = "LINE"
        /\ q(2).kind = "ARC" /\ Sweep(q(2)) = 90
        /\ q(3).kind = "LINE"
        /\ q(4).kind = "ARC" /\ Sweep(q(4)) = 180
        /\ q(5).kind = "LINE"
        /\ q(6).kind = "ARC" /\ Sweep(q(6)) = 90

\* C7: a finished drawing has one circle per fastener, all on layer plate, and
\* its fascia layer has 4 corner arcs and 4 straight edges plus, per fastener,
\* one rebate of 3 lines and 3 arcs in the order line, fillet, line, pocket
\* arc, line, fillet.
C7_Counts ==
    Done =>
        LET n == Len(left_mount) + Len(right_mount)
        IN  /\ Count(msp, LAMBDA p : p.kind = "CIRCLE") = n
            /\ Count(OnLayer("plate"), LAMBDA p : p.kind = "CIRCLE") = n
            /\ Count(FasciaSeq, LAMBDA p : p.kind = "ARC") = 4 + 3 * n
            /\ Count(FasciaSeq, LAMBDA p : p.kind = "LINE") = 4 + 3 * n
            /\ Count(FasciaSeq, LAMBDA p : p.kind = "ARC" /\ Sweep(p) = 180) = n
            /\ Len(FasciaSeq) = 8 + 6 * n
            /\ \A k \in 1..Len(left_mount) : IsRebate(LeftSide, k)
            /\ \A k \in 1..Len(right_mount) : IsRebate(RightSide, k)
            /\ LeftSide[Len(LeftSide)].kind = "LINE"
            /\ RightSide[Len(RightSide)].kind = "LINE"

\* a finished panel with two fasteners on each side: 4 circles, 2 rebates a side
C7_Witness ==
    /\ Done /\ Len(left_mount) = 2 /\ Len(right_mount) = 2
    /\ Count(msp, LAMBDA p : p.kind = "CIRCLE") = 4
    /\ Len(FasciaSeq) = 32

----------------------------------------------------------------------------
(* C8 *)

IsVertical(p) == p.kind = "LINE" /\ p.start[1] = p.end[1]

Flag(b) == IF b THEN 1 ELSE 0

\* the circle and the pocket arc of the k-th fastener of a side, whose plate
\* block starts after msp[base] and whose fascia primitives are S, are both
\* centred at (x, row p)
SameCentre(base, S, k, x, p) ==
    LET c == msp[base + 1 + 2 * k]
        a == S[6 * (k - 1) + 4]
        centre == <<x * NmPer64th, (p * 24 + 12) * NmPer64th>>
    IN  /\ c.kind = "CIRCLE" /\ c.layer = "plate" /\ c.radius = 2000000
        /\ a.kind = "ARC" /\ a.layer = "fascia" /\ Sweep(a) = 180
        /\ a.radius = 16 * NmPer64th
        /\ c.center = centre
        /\ a.center = centre

\* C8: for every fastener the plate circle (radius 2 mm) and the fascia
\* pocket arc (radius 3/16+1/16 in, 180 degrees) share the centre
\* (3/16 in from the side's plate edge, pos*3/8 in + 3/16 in); each
\* construction layer has one vertical line through that x for a side exactly
\* when the side has a fastener.
C8_SharedCentre ==
    Done =>
        LET nL == Len(left_mount)
            nR == Len(right_mount)
            xL == 12
            xR == w_inches - 12
        IN  /\ \A k \in 1..nL : SameCentre(4, LeftSide, k, xL, left_mount[k])
            /\ \A k \in 1..nR :
                  SameCentre(4 + PlateBlock(nL), RightSide, k, xR, right_mount[k])
            /\ Count(OnLayer("plate_construction"), IsVertical)
                  = Flag(nL > 0) + Flag(nR > 0)
            /\ Count(OnLayer("fascia_construction"), IsVertical)
                  = 1 + Flag(nL > 0) + Flag(nR > 0)
            /\ \A layer \in {"plate_construction", "fascia_construction"} :
                  /\ nL > 0 => \E p \in Range(OnLayer(layer)) :
                        IsVertical(p) /\ p.start[1] = xL * NmPer64th
                  /\ nR > 0 => \E p \in Range(OnLayer(layer)) :
                        IsVertical(p) /\ p.start[1] = xR * NmPer64th

\* a finished panel with fasteners on the left only
C8_Witness ==
    /\ Done /\ left_mount = <<1, 3>> /\ right_mount = <<>>
    /\ w_inches = 64
    /\ \E p \in Range(OnLayer("plate")) :
          p.kind = "CIRCLE" /\ p.center = <<4762500, 33337500>>
    /\ \E p \in Range(FasciaSeq) :
          p.kind = "ARC" /\ Sweep(p) = 180 /\ p.center = <<4762500, 33337500>>

----------------------------------------------------------------------------
(* C9 *)

\* q lies in the plate rectangle inset by 1/32 in on all sides
InsideInset(q) ==
    /\ 2 * NmPer64th <= q[1] /\ q[1] <= (w_inches - 2) * NmPer64th
    /\ 2 * NmPer64th <= q[2] /\ q[2] <= (h_units * 24 - 2) * NmPer64th

FasciaInsideInset ==
    \A p \in Range(FasciaSeq) : InsideInset(P1(p)) /\ InsideInset(P2(p))

\* the final segment of each side runs upward (or has no length)
FinalSegmentsUpward ==
    /\ pc \in {"right_start", "right_for", "right_final", "decal", "done"} =>
          LET f == FasciaSeq[7 + 6 * Len(left_mount)]
          IN  f.start[2] <= f.end[2]
    /\ pc \in {"decal", "done"} =>
          LET f == FasciaSeq[Len(FasciaSeq)]
          IN  f.start[2] <= f.end[2]

\* C9 as stated: for height >= 2, width >= 1 in and strictly ascending lists
\* with 0 < p < height, every end point of every fascia primitive lies in the
\* inset rectangle and no final side segment runs downward.
C9_InsideForPositionsBelowHeight ==
    (h_units >= 2 /\ w_inches >= 64 /\ ~BadList(left_mount) /\ ~BadList(right_mount))
        => FasciaInsideInset /\ FinalSegmentsUpward

BelowTopRow(l) == \A i \in 1..Len(l) : l[i] <= h_units - 2

\* C9 amended: the same, for positions 0 < p <= height - 2 (the top row,
\* p = height - 1, is excluded: its rebate leaves the plate).
C9_InsideForPositionsBelowTopRow ==
    (h_units >= 2 /\ w_inches >= 64 /\ ~BadList(left_mount) /\ ~BadList(right_mount)
         /\ BelowTopRow(left_mount) /\ BelowTopRow(right_mount))
        => FasciaInsideInset /\ FinalSegmentsUpward

\* a finished 1 in x 4 unit panel with fasteners in rows 1 and 2 = height - 2
C9_Witness ==
    /\ Done /\ h_units = 4 /\ w_inches = 64
    /\ left_mount = <<1, 2>> /\ right_mount = <<1, 2>>
    /\ FasciaSeq[19].start = <<793750, 30956250>>

----------------------------------------------------------------------------
(* C10 *)

\* the two points of every fascia primitive, as (index, which point)
Ends == {<<i, e>> : i \in 1..Len(FasciaSeq), e \in {1, 2}}

\* every end point is the end point of exactly one other primitive
OneClosedLoop ==
    LET F == FasciaSeq
        pt == [i \in 1..Len(F) |-> <<P1(F[i]), P2(F[i])>>]
        E == {<<i, e>> : i \in 1..Len(F), e \in {1, 2}}
    IN  \A x \in E :
            Cardinality({y \in E : y[1] # x[1] /\ pt[y[1]][y[2]] = pt[x[1]][x[2]]}) = 1

DistinctFrom1(l) ==
    /\ \A i \in 1..Len(l) : l[i] >= 1
    /\ \A i, j \in 1..Len(l) : i # j => l[i] # l[j]

\* C10 as stated, on panels of positive width and height: for lists of
\* pairwise distinct positions >= 1, every end point of a fascia line or arc
\* coincides with the end point of exactly one other fascia primitive.
C10_ClosedLoopAnyWidth ==
    (Done /\ w_inches > 0 /\ h_units > 0
         /\ DistinctFrom1(left_mount) /\ DistinctFrom1(right_mount))
        => OneClosedLoop

\* C10 amended: the same, for every width above 3/8 in (at 3/8 in the pocket
\* mouths of equal rows on the two sides meet; narrower widths make corner
\* and fillet points of the two sides coincide).
C10_ClosedLoopWideEnough ==
    (Done /\ w_inches > 24 /\ DistinctFrom1(left_mount) /\ DistinctFrom1(right_mount))
        => OneClosedLoop

\* a finished 13/32 in wide panel, the left list unsorted, one row on both sides
C10_Witness ==
    /\ Done /\ w_inches = 26
    /\ left_mount = <<3, 1>> /\ right_mount = <<3, 1>>
    /\ Cardinality(Ends) = 64

====
